---- MODULE Spec2Model ----
(***************************************************************************)
(* ZoneOffset (src/src/ZoneOffset.js): a fixed offset from UTC, built by   *)
(* five static factories, validated against +/-18:00, with a process-wide  *)
(* cache of the instances whose offset is a multiple of 15 minutes.        *)
(*                                                                         *)
(* Objects live in `heap`; a reference is an index into it, so reference   *)
(* identity (===) is equality of indices.  A JavaScript value that may be  *)
(* undefined is a sequence: <<>> for undefined, <<v>> for the value v.     *)
(***************************************************************************)
EXTENDS Integers, Sequences, FiniteSets

VARIABLES
    heap,           \* the ZoneOffset instances constructed so far
    SECONDS_CACHE,  \* var SECONDS_CACHE = {} : key (totalSeconds) -> reference
    MAX_SECONDS,    \* ZoneOffset.MAX_SECONDS : <<>> until _init sets it
    UTC,            \* ZoneOffset.UTC : <<>> until _init binds it
    MIN,            \* ZoneOffset.MIN
    MAX,            \* ZoneOffset.MAX
    last,           \* the most recent call: entry point, arguments, outcome
    returned,       \* every [ts, ref] that ofTotalSeconds(ts) has returned
    input           \* the argument under test of the single-call specifications

vars == <<heap, SECONDS_CACHE, MAX_SECONDS, UTC, MIN, MAX, last, returned, input>>

progVars == <<heap, SECONDS_CACHE, MAX_SECONDS, UTC, MIN, MAX>>

-----------------------------------------------------------------------------
(* Bounds of the model *)

\* most ZoneOffset instances the heap may hold
MaxHeap == 5

\* each interesting total-seconds value b is called with b, b+1, .. b+MaxDelta
MaxDelta == 1

\* hours beyond +/-18 tried by the triple-form factories
HourSlack == 1

\* minutes and seconds beyond +/-59 tried by the triple-form factories
MinSecSlack == 1

\* total seconds beyond +/-64800 tried by the single-call specification
TsSlack == 2

-----------------------------------------------------------------------------
(* Constants of LocalTime used for unit conversion *)

SECONDS_PER_HOUR == 3600

SECONDS_PER_MINUTE == 60

MINUTES_PER_HOUR == 60

-----------------------------------------------------------------------------
(* JavaScript arithmetic *)

\* Math.abs
Abs(n) == IF n < 0 THEN -n ELSE n

\* a % b of JavaScript: the remainder takes the sign of the dividend
JsRem(a, b) == IF a >= 0 THEN a % b ELSE -((-a) % b)

\* a > m where m may be undefined: undefined converts to NaN and every
\* comparison with NaN is false
JsGreater(a, m) == IF m = <<>> THEN FALSE ELSE a > m[1]

\* MathUtil.intDiv: division truncating toward zero
intDiv(x, y) == IF x >= 0 THEN x \div y ELSE -((-x) \div y)

\* MathUtil.intMod: remainder of the truncating division
intMod(x, y) == x - intDiv(x, y) * y

\* '' + n for a non-negative integer n: its decimal digits
DigitChar(d) == <<"0", "1", "2", "3", "4", "5", "6", "7", "8", "9">>[d + 1]

RECURSIVE NumToString(_)
NumToString(n) == IF n < 10 THEN <<DigitChar(n)>>
                  ELSE NumToString(n \div 10) \o <<DigitChar(n % 10)>>

-----------------------------------------------------------------------------
(* Exceptions.  A thrown value is <<exception>>; <<>> means nothing thrown. *)

DateTimeException(message) == [name |-> "DateTimeException", message |-> message]

NotThrown == <<>>

-----------------------------------------------------------------------------
(* The program state the static methods read and write *)

State == [heap |-> heap, cache |-> SECONDS_CACHE, max |-> MAX_SECONDS]

\* SECONDS_CACHE[key]: <<>> when the key is absent (undefined)
CacheGet(cache, key) == IF key \in DOMAIN cache THEN <<cache[key]>> ELSE <<>>

\* SECONDS_CACHE[key] = ref
CachePut(cache, key, ref) ==
    [k \in (DOMAIN cache) \cup {key} |-> IF k = key THEN ref ELSE cache[k]]

EmptyCache == [k \in {} |-> 0]

-----------------------------------------------------------------------------
(* static _buildId(totalSeconds) *)

\* _buildId with the seconds appended without their leading zero
_buildId_secondsUnpadded(totalSeconds) ==
    IF totalSeconds = 0 THEN <<"Z">>
    ELSE
        LET absTotalSeconds == Abs(totalSeconds)
            absHours == intDiv(absTotalSeconds, SECONDS_PER_HOUR)
            absMinutes == intMod(intDiv(absTotalSeconds, SECONDS_PER_MINUTE),
                                 MINUTES_PER_HOUR)
            buf == (IF totalSeconds < 0 THEN <<"-">> ELSE <<"+">>)
                   \o (IF absHours < 10 THEN <<"0">> ELSE <<>>)
                   \o NumToString(absHours)
                   \o (IF absMinutes < 10 THEN <<":", "0">> ELSE <<":">>)
                   \o NumToString(absMinutes)
            absSeconds == intMod(absTotalSeconds, SECONDS_PER_MINUTE)
        IN  IF absSeconds # 0
            THEN buf \o <<":">> \o NumToString(absSeconds)
            ELSE buf

_buildId(totalSeconds) ==
    IF totalSeconds = 0 THEN <<"Z">>
    ELSE
        LET absTotalSeconds == Abs(totalSeconds)
            absHours == intDiv(absTotalSeconds, SECONDS_PER_HOUR)
            absMinutes == intMod(intDiv(absTotalSeconds, SECONDS_PER_MINUTE),
                                 MINUTES_PER_HOUR)
            buf == (IF totalSeconds < 0 THEN <<"-">> ELSE <<"+">>)
                   \o (IF absHours < 10 THEN <<"0">> ELSE <<>>)
                   \o NumToString(absHours)
                   \o (IF absMinutes < 10 THEN <<":", "0">> ELSE <<":">>)
                   \o NumToString(absMinutes)
            absSeconds == intMod(absTotalSeconds, SECONDS_PER_MINUTE)
        IN  IF absSeconds # 0
            THEN buf \o (IF absSeconds < 10 THEN <<":", "0">> ELSE <<":">>)
                     \o NumToString(absSeconds)
            ELSE buf

-----------------------------------------------------------------------------
(* static _validateTotalSeconds(totalSeconds), reading ZoneOffset.MAX_SECONDS *)

_validateTotalSeconds(totalSeconds, max) ==
    IF JsGreater(Abs(totalSeconds), max)
    THEN <<DateTimeException(<<"Zone offset not in valid range: -18:00 to +18:00">>)>>
    ELSE NotThrown

-----------------------------------------------------------------------------
(* static _validate(hours, minutes, seconds): the first throw reached wins *)

\* _validate without the sign check of the hours == 0 branch
_validate_noZeroHoursSign(hours, minutes, seconds) ==
    IF hours < -18 \/ hours > 18
    THEN <<DateTimeException(<<"Zone offset hours not in valid range: value ", hours,
                               " is not in the range -18 to 18">>)>>
    ELSE IF hours > 0 /\ (minutes < 0 \/ seconds < 0)
    THEN <<DateTimeException(
        <<"Zone offset minutes and seconds must be positive because hours is positive">>)>>
    ELSE IF ~(hours > 0) /\ hours < 0 /\ (minutes > 0 \/ seconds > 0)
    THEN <<DateTimeException(
        <<"Zone offset minutes and seconds must be negative because hours is negative">>)>>
    ELSE IF Abs(minutes) > 59
    THEN <<DateTimeException(<<"Zone offset minutes not in valid range: abs(value) ",
                               Abs(minutes), " is not in the range 0 to 59">>)>>
    ELSE IF Abs(seconds) > 59
    THEN <<DateTimeException(<<"Zone offset seconds not in valid range: abs(value) ",
                               Abs(seconds), " is not in the range 0 to 59">>)>>
    ELSE IF Abs(hours) = 18 /\ (Abs(minutes) > 0 \/ Abs(seconds) > 0)
    THEN <<DateTimeException(<<"Zone offset not in valid range: -18:00 to +18:00">>)>>
    ELSE NotThrown

\* _validate with the two range checks of minutes and seconds moved before
\* the sign checks
_validate_rangesFirst(hours, minutes, seconds) ==
    IF hours < -18 \/ hours > 18
    THEN <<DateTimeException(<<"Zone offset hours not in valid range: value ", hours,
                               " is not in the range -18 to 18">>)>>
    ELSE IF Abs(minutes) > 59
    THEN <<DateTimeException(<<"Zone offset minutes not in valid range: abs(value) ",
                               Abs(minutes), " is not in the range 0 to 59">>)>>
    ELSE IF Abs(seconds) > 59
    THEN <<DateTimeException(<<"Zone offset seconds not in valid range: abs(value) ",
                               Abs(seconds), " is not in the range 0 to 59">>)>>
    ELSE IF hours > 0 /\ (minutes < 0 \/ seconds < 0)
    THEN <<DateTimeException(
        <<"Zone offset minutes and seconds must be positive because hours is positive">>)>>
    ELSE IF ~(hours > 0) /\ hours < 0 /\ (minutes > 0 \/ seconds > 0)
    THEN <<DateTimeException(
        <<"Zone offset minutes and seconds must be negative because hours is negative">>)>>
    ELSE IF ~(hours > 0) /\ ~(hours < 0)
            /\ ((minutes > 0 /\ seconds < 0) \/ (minutes < 0 /\ seconds > 0))
    THEN <<DateTimeException(
        <<"Zone offset minutes and seconds must have the same sign">>)>>
    ELSE IF Abs(hours) = 18 /\ (Abs(minutes) > 0 \/ Abs(seconds) > 0)
    THEN <<DateTimeException(<<"Zone offset not in valid range: -18:00 to +18:00">>)>>
    ELSE NotThrown

_validate(hours, minutes, seconds) ==
    IF hours < -18 \/ hours > 18
    THEN <<DateTimeException(<<"Zone offset hours not in valid range: value ", hours,
                               " is not in the range -18 to 18">>)>>
    ELSE IF hours > 0 /\ (minutes < 0 \/ seconds < 0)
    THEN <<DateTimeException(
        <<"Zone offset minutes and seconds must be positive because hours is positive">>)>>
    ELSE IF ~(hours > 0) /\ hours < 0 /\ (minutes > 0 \/ seconds > 0)
    THEN <<DateTimeException(
        <<"Zone offset minutes and seconds must be negative because hours is negative">>)>>
    ELSE IF ~(hours > 0) /\ ~(hours < 0)
            /\ ((minutes > 0 /\ seconds < 0) \/ (minutes < 0 /\ seconds > 0))
    THEN <<DateTimeException(
        <<"Zone offset minutes and seconds must have the same sign">>)>>
    ELSE IF Abs(minutes) > 59
    THEN <<DateTimeException(<<"Zone offset minutes not in valid range: abs(value) ",
                               Abs(minutes), " is not in the range 0 to 59">>)>>
    ELSE IF Abs(seconds) > 59
    THEN <<DateTimeException(<<"Zone offset seconds not in valid range: abs(value) ",
                               Abs(seconds), " is not in the range 0 to 59">>)>>
    ELSE IF Abs(hours) = 18 /\ (Abs(minutes) > 0 \/ Abs(seconds) > 0)
    THEN <<DateTimeException(<<"Zone offset not in valid range: -18:00 to +18:00">>)>>
    ELSE NotThrown

-----------------------------------------------------------------------------
(* ZoneRules.of(offset): the rules object that always answers `offset` *)

ZoneRules_of(ref) == [fixedOffset |-> ref]

(* new ZoneOffset(totalSeconds).  The outcome of a call is a record:       *)
(* thrown (<<>> or <<exception>>), value (<<>> or <<result>>) and st, the  *)
(* program state the call leaves.                                          *)

constructor(totalSeconds, st) ==
    LET thrown == _validateTotalSeconds(totalSeconds, st.max)
        this == Len(st.heap) + 1
    IN  IF thrown # NotThrown
        THEN [thrown |-> thrown, value |-> <<>>, st |-> st]
        ELSE [thrown |-> NotThrown,
              value |-> <<this>>,
              st |-> [st EXCEPT !.heap = Append(st.heap,
                        [_totalSeconds |-> totalSeconds,
                         _rules |-> ZoneRules_of(this),
                         _id |-> _buildId(totalSeconds)])]]

-----------------------------------------------------------------------------
(* static ofTotalSeconds(totalSeconds) *)

\* ofTotalSeconds with the cache keyed by the magnitude of the offset
ofTotalSeconds_absKey(totalSeconds, st) ==
    IF JsRem(totalSeconds, 15 * SECONDS_PER_MINUTE) = 0
    THEN LET totalSecs == Abs(totalSeconds)
             result == CacheGet(st.cache, totalSecs)
         IN  IF result = <<>>
             THEN LET made == constructor(totalSeconds, st)
                  IN  IF made.thrown # NotThrown
                      THEN made
                      ELSE [made EXCEPT !.st.cache =
                                CachePut(made.st.cache, totalSecs, made.value[1])]
             ELSE [thrown |-> NotThrown, value |-> result, st |-> st]
    ELSE constructor(totalSeconds, st)

\* ofTotalSeconds that never stores the instance it constructs
ofTotalSeconds_noInsert(totalSeconds, st) ==
    IF JsRem(totalSeconds, 15 * SECONDS_PER_MINUTE) = 0
    THEN LET totalSecs == totalSeconds
             result == CacheGet(st.cache, totalSecs)
         IN  IF result = <<>>
             THEN constructor(totalSeconds, st)
             ELSE [thrown |-> NotThrown, value |-> result, st |-> st]
    ELSE constructor(totalSeconds, st)

\* ofTotalSeconds that caches every offset, aligned or not
ofTotalSeconds_cacheAll(totalSeconds, st) ==
    LET totalSecs == totalSeconds
        result == CacheGet(st.cache, totalSecs)
    IN  IF result = <<>>
        THEN LET made == constructor(totalSeconds, st)
             IN  IF made.thrown # NotThrown
                 THEN made
                 ELSE [made EXCEPT !.st.cache =
                           CachePut(made.st.cache, totalSecs, made.value[1])]
        ELSE [thrown |-> NotThrown, value |-> result, st |-> st]

ofTotalSeconds(totalSeconds, st) ==
    IF JsRem(totalSeconds, 15 * SECONDS_PER_MINUTE) = 0
    THEN LET totalSecs == totalSeconds
             result == CacheGet(st.cache, totalSecs)
         IN  IF result = <<>>
             THEN LET made == constructor(totalSeconds, st)
                  IN  IF made.thrown # NotThrown
                      THEN made
                      ELSE [made EXCEPT !.st.cache =
                                CachePut(made.st.cache, totalSecs, made.value[1])]
             ELSE [thrown |-> NotThrown, value |-> result, st |-> st]
    ELSE constructor(totalSeconds, st)

(* static ofHoursMinutesSeconds(hours, minutes, seconds) *)

ofHoursMinutesSeconds(hours, minutes, seconds, st) ==
    LET thrown == _validate(hours, minutes, seconds)
        totalSeconds == hours * SECONDS_PER_HOUR + minutes * SECONDS_PER_MINUTE + seconds
    IN  IF thrown # NotThrown
        THEN [thrown |-> thrown, value |-> <<>>, st |-> st]
        ELSE ofTotalSeconds(totalSeconds, st)

(* static ofHours(hours) *)

ofHours(hours, st) == ofHoursMinutesSeconds(hours, 0, 0, st)

(* static ofHoursMinutes(hours, minutes) *)

ofHoursMinutes(hours, minutes, st) == ofHoursMinutesSeconds(hours, minutes, 0, st)

(* static ofTotalMinutes(totalMinutes) *)

ofTotalMinutes(totalMinutes, st) ==
    LET totalSeconds == totalMinutes * SECONDS_PER_MINUTE
    IN  ofTotalSeconds(totalSeconds, st)

-----------------------------------------------------------------------------
(* Instance methods; `this` is a reference into the heap *)

totalSeconds(this) == heap[this]._totalSeconds

id(this) == heap[this]._id

rules(this) == heap[this]._rules

hashCode(this) == heap[this]._totalSeconds

toString(this) == heap[this]._id

\* obj instanceof ZoneOffset
instanceofZoneOffset(obj) == obj.type = "ZoneOffset"

\* this === obj
StrictEquals(this, obj) == obj.type = "ZoneOffset" /\ obj.ref = this

\* equals that compares _totalSeconds without the instanceof test
equals_noInstanceof(this, obj) ==
    IF StrictEquals(this, obj) THEN TRUE
    ELSE IF instanceofZoneOffset(obj)
         THEN heap[this]._totalSeconds = heap[obj.ref]._totalSeconds
         ELSE obj.type = "Object" /\ heap[this]._totalSeconds = obj._totalSeconds

equals(this, obj) ==
    IF StrictEquals(this, obj) THEN TRUE
    ELSE IF instanceofZoneOffset(obj)
         THEN heap[this]._totalSeconds = heap[obj.ref]._totalSeconds
         ELSE FALSE

-----------------------------------------------------------------------------
(* The values a caller passes *)

\* total seconds: the three constants' offsets and the first value past
\* +18:00, and, for d in 1..MaxDelta, an unaligned in-range value and an
\* aligned value past +18:00
TotalSecondsInputs ==
    {0, -64800, 64800, 64801}
        \cup {d : d \in 1..MaxDelta}
        \cup {64800 + 900 * d : d \in 1..MaxDelta}

\* the arguments of the other entry points: they end in ofTotalSeconds(0),
\* (1), (-64800), (64800) or (65700), or fail validation
TotalMinutesInputs == {0, -1080, 1095}

HoursInputs == {-19, 0, 18}

HoursMinutesInputs == {<<0, 0>>, <<-18, 0>>, <<18, 1>>}

HoursMinutesSecondsInputs == {<<0, 0, 1>>, <<18, 0, 0>>, <<0, 1, -1>>}

\* the total seconds of the specification of equals
EqualsTotalSecondsInputs == {0, 1, -1}

\* the arguments equals(this, obj) is called with: an offset, null, a number
\* and an object that is no ZoneOffset but has this's _totalSeconds
EqualsInputs(this) ==
    {[type |-> "ZoneOffset", ref |-> r] : r \in 1..Len(heap)}
        \cup {[type |-> "null"],
              [type |-> "number", value |-> heap[this]._totalSeconds],
              [type |-> "Object", _totalSeconds |-> heap[this]._totalSeconds]}

\* the triples and the total seconds of the single-call specifications; the
\* hours are those within HourSlack of 0, of -18 and of 18
HoursRange ==
    {h \in -(18 + HourSlack) .. (18 + HourSlack) :
        Abs(h) <= HourSlack \/ Abs(h) >= 18 - HourSlack}

MinSecRange == -(59 + MinSecSlack) .. (59 + MinSecSlack)

TotalSecondsRange == -(64800 + TsSlack) .. (64800 + TsSlack)

-----------------------------------------------------------------------------
(* Steps: one call of an exported function each *)

\* the state a call leaves; constructions stop when the heap bound is reached
Commit(out) ==
    /\ Len(out.st.heap) <= MaxHeap
    /\ heap' = out.st.heap
    /\ SECONDS_CACHE' = out.st.cache
    /\ MAX_SECONDS' = out.st.max

\* the [ts, ref] a call that ended in ofTotalSeconds(ts) returned, if it returned
Returned(ts, out) ==
    IF out.thrown = NotThrown THEN {[ts |-> ts, ref |-> out.value[1]]} ELSE {}

\* what the call of a factory returned or threw; ts is the total seconds its
\* arguments stand for
Record(op, args, ts, out) ==
    /\ last' = [op |-> op, args |-> args, ts |-> ts,
                thrown |-> out.thrown, value |-> out.value]
    /\ returned' = returned \cup Returned(ts, out)

OfTotalSeconds(ts) ==
    \E out \in {ofTotalSeconds(ts, State)} :
        /\ Commit(out)
        /\ Record("ofTotalSeconds", <<ts>>, ts, out)
        /\ UNCHANGED <<UTC, MIN, MAX, input>>

OfTotalMinutes(tm) ==
    \E out \in {ofTotalMinutes(tm, State)} :
        /\ Commit(out)
        /\ Record("ofTotalMinutes", <<tm>>, tm * SECONDS_PER_MINUTE, out)
        /\ UNCHANGED <<UTC, MIN, MAX, input>>

OfHours(h) ==
    \E out \in {ofHours(h, State)} :
        /\ Commit(out)
        /\ Record("ofHours", <<h>>, h * SECONDS_PER_HOUR, out)
        /\ UNCHANGED <<UTC, MIN, MAX, input>>

OfHoursMinutes(h, m) ==
    \E out \in {ofHoursMinutes(h, m, State)} :
        /\ Commit(out)
        /\ Record("ofHoursMinutes", <<h, m>>,
                  h * SECONDS_PER_HOUR + m * SECONDS_PER_MINUTE, out)
        /\ UNCHANGED <<UTC, MIN, MAX, input>>

OfHoursMinutesSeconds(h, m, s) ==
    \E out \in {ofHoursMinutesSeconds(h, m, s, State)} :
        /\ Commit(out)
        /\ Record("ofHoursMinutesSeconds", <<h, m, s>>,
                  h * SECONDS_PER_HOUR + m * SECONDS_PER_MINUTE + s, out)
        /\ UNCHANGED <<UTC, MIN, MAX, input>>

\* a statement of _init after one that threw is not run
Then(prev, call) == IF prev.thrown = NotThrown THEN call ELSE [prev EXCEPT !.value = <<>>]

\* X = call: the assignment happens when the call returned
Assigned(old, out) == IF out.thrown = NotThrown THEN out.value ELSE old

\* _init that binds MIN to ofTotalSeconds(MAX_SECONDS), the sign dropped
_init_minUnsigned ==
    \E st0 \in {[State EXCEPT !.max = <<18 * SECONDS_PER_HOUR>>]} :
    \E utc \in {ofTotalSeconds(0, st0)} :
    \E min \in {Then(utc, ofTotalSeconds(utc.st.max[1], utc.st))} :
    \E max \in {Then(min, ofTotalSeconds(min.st.max[1], min.st))} :
        /\ Commit(max)
        /\ UTC' = Assigned(UTC, utc)
        /\ MIN' = Assigned(MIN, min)
        /\ MAX' = Assigned(MAX, max)
        /\ returned' = returned \cup Returned(0, utc)
                                \cup Returned(utc.st.max[1], min)
                                \cup Returned(utc.st.max[1], max)
        /\ UNCHANGED <<last, input>>

\* export function _init(): sets MAX_SECONDS, then binds UTC, MIN and MAX
_init ==
    \E st0 \in {[State EXCEPT !.max = <<18 * SECONDS_PER_HOUR>>]} :
    \E utc \in {ofTotalSeconds(0, st0)} :
    \E min \in {Then(utc, ofTotalSeconds(-(utc.st.max[1]), utc.st))} :
    \E max \in {Then(min, ofTotalSeconds(min.st.max[1], min.st))} :
        /\ Commit(max)
        /\ UTC' = Assigned(UTC, utc)
        /\ MIN' = Assigned(MIN, min)
        /\ MAX' = Assigned(MAX, max)
        /\ returned' = returned \cup Returned(0, utc)
                                \cup Returned(-(utc.st.max[1]), min)
                                \cup Returned(utc.st.max[1], max)
        /\ UNCHANGED <<last, input>>

Equals(this, obj) ==
    /\ last' = [op |-> "equals", args |-> <<this, obj>>, ts |-> 0,
                thrown |-> NotThrown, value |-> <<equals(this, obj)>>]
    /\ UNCHANGED <<progVars, returned, input>>

-----------------------------------------------------------------------------
(* The program: nothing constructed, nothing initialised, then any calls *)

Fresh ==
    /\ heap = <<>>
    /\ SECONDS_CACHE = EmptyCache
    /\ MAX_SECONDS = <<>>
    /\ UTC = <<>>
    /\ MIN = <<>>
    /\ MAX = <<>>
    /\ last = [op |-> "none", args |-> <<>>, ts |-> 0,
               thrown |-> NotThrown, value |-> <<>>]
    /\ returned = {}

Init == Fresh /\ input = <<>>

\* _init and ofTotalSeconds in any order
Next ==
    \/ _init
    \/ \E ts \in TotalSecondsInputs : OfTotalSeconds(ts)

Spec == Init /\ [][Next]_vars

\* _init and the five factories in any order
NextFactories ==
    \/ _init
    \/ \E ts \in {0, 1, 64800} : OfTotalSeconds(ts)
    \/ \E tm \in TotalMinutesInputs : OfTotalMinutes(tm)
    \/ \E h \in HoursInputs : OfHours(h)
    \/ \E hm \in HoursMinutesInputs : OfHoursMinutes(hm[1], hm[2])
    \/ \E hms \in HoursMinutesSecondsInputs :
            OfHoursMinutesSeconds(hms[1], hms[2], hms[3])

SpecFactories == Init /\ [][NextFactories]_vars

\* _init, ofTotalSeconds and equals in any order
NextEquals ==
    \/ _init
    \/ \E ts \in EqualsTotalSecondsInputs : OfTotalSeconds(ts)
    \/ \E this \in 1..Len(heap) : \E obj \in EqualsInputs(this) : Equals(this, obj)

SpecEquals == Init /\ [][NextEquals]_vars

\* one call of ofHoursMinutesSeconds on any triple, before or after _init
InitTriple == Fresh /\ input \in HoursRange \X MinSecRange \X MinSecRange

NextTriple ==
    \/ _init
    \/ last.op = "none" /\ OfHoursMinutesSeconds(input[1], input[2], input[3])

SpecTriple == InitTriple /\ [][NextTriple]_vars

\* one call of ofTotalSeconds on any total, before or after _init
InitTotal == Fresh /\ input \in {<<ts>> : ts \in TotalSecondsRange}

NextTotal ==
    \/ _init
    \/ last.op = "none" /\ OfTotalSeconds(input[1])

SpecTotal == InitTotal /\ [][NextTotal]_vars

-----------------------------------------------------------------------------
(* Vocabulary of the properties *)

\* -18:00 to +18:00 in seconds
InRange(ts) == -64800 <= ts /\ ts <= 64800

\* on a 15-minute boundary
Aligned(ts) == ts % 900 = 0

Factories ==
    {"ofTotalSeconds", "ofTotalMinutes", "ofHours", "ofHoursMinutes",
     "ofHoursMinutesSeconds"}

\* the last call was ofTotalSeconds(ts)
CalledOfTotalSeconds == last.op = "ofTotalSeconds"

Returned_ == last.thrown = NotThrown /\ last.value # <<>>

\* _init has run
Initialised == MAX_SECONDS # <<>>

\* this step is a call of a factory (a call that repeats the last one and
\* changes nothing is a stuttering step)
FactoryStep == last' # last /\ last'.op \in Factories

\* this step is a run of _init
InitStep == last' = last /\ MAX_SECONDS' # <<>>

RangeMessage == "Zone offset not in valid range: -18:00 to +18:00"

-----------------------------------------------------------------------------
\* C1: for every ts in -64800..64800, ofTotalSeconds(ts) raises nothing and
\* returns an offset whose totalSeconds() is ts, on a cache hit, on a cache
\* miss and for an unaligned ts, after any sequence of calls; and every
\* offset a call ofTotalSeconds(ts) has ever returned has totalSeconds() = ts.
C1_ReturnsTotalSeconds ==
    /\ (CalledOfTotalSeconds /\ InRange(last.ts))
          => (Returned_ /\ totalSeconds(last.value[1]) = last.ts)
    /\ \A p \in returned : InRange(p.ts) => totalSeconds(p.ref) = p.ts

\* an aligned ts is returned from the cache after _init and other calls
C1_Witness ==
    /\ CalledOfTotalSeconds /\ last.ts = -64800 /\ Returned_
    /\ Initialised
    /\ last.value[1] < Len(heap)

\* C2: for every ts with abs(ts) > 64800, ofTotalSeconds(ts) fails with the
\* range error, produces no offset and leaves the cache (and the heap) as
\* they were.
C2_OutOfRangeFails ==
    [][(FactoryStep /\ last'.op = "ofTotalSeconds" /\ ~InRange(last'.ts))
          => /\ last'.thrown # NotThrown
             /\ last'.thrown[1].message[1] = RangeMessage
             /\ last'.value = <<>>
             /\ SECONDS_CACHE' = SECONDS_CACHE
             /\ heap' = heap]_vars

\* C3: every offset that exists has -64800 <= totalSeconds <= 64800, also
\* when factories are called before _init.
C3_AllOffsetsInRange ==
    \A r \in 1..Len(heap) : InRange(heap[r]._totalSeconds)

\* the total seconds ofTotalSeconds has returned an offset for
ReturnedTotals == {p.ts : p \in returned}

\* C7: for an aligned ts in -64800..64800, all calls that end in
\* ofTotalSeconds(ts), through any of the five factories or _init, return
\* the same instance: the first constructs one offset and puts it in the
\* cache under ts, every later one constructs nothing and changes nothing.
C7_SameInstance ==
    \A p, q \in returned :
        (p.ts = q.ts /\ Aligned(p.ts) /\ InRange(p.ts)) => p.ref = q.ref

C7_FactoryStep ==
    (FactoryStep /\ last'.thrown = NotThrown
                 /\ Aligned(last'.ts) /\ InRange(last'.ts))
        => IF last'.ts \in ReturnedTotals
           THEN /\ heap' = heap
                /\ SECONDS_CACHE' = SECONDS_CACHE
                /\ [ts |-> last'.ts, ref |-> last'.value[1]] \in returned
           ELSE /\ Len(heap') = Len(heap) + 1
                /\ last'.value[1] = Len(heap')
                /\ last'.ts \notin DOMAIN SECONDS_CACHE
                /\ last'.ts \in DOMAIN SECONDS_CACHE'
                /\ SECONDS_CACHE'[last'.ts] = last'.value[1]

C7_InitStep ==
    InitStep =>
        Len(heap') = Len(heap) + Cardinality({0, -64800, 64800} \ ReturnedTotals)

C7_CanonicalInstance ==
    []C7_SameInstance /\ [][C7_FactoryStep /\ C7_InitStep]_vars

\* ofHours(18) returns the instance _init bound to MAX
C7_Witness ==
    /\ last.op = "ofHours" /\ last.args = <<18>> /\ Returned_
    /\ MAX = last.value
    /\ Cardinality({p \in returned : p.ts = 0}) = 1
    /\ Len(heap) = MaxHeap

\* C9: once _init has run, UTC, MIN and MAX have totalSeconds 0, -64800 and
\* 64800, each is the instance ofTotalSeconds returns for that total, and
\* no later call or run of _init rebinds a constant to another instance.
C9_ConstantsBound ==
    Initialised =>
        /\ UTC # <<>> /\ MIN # <<>> /\ MAX # <<>>
        /\ totalSeconds(UTC[1]) = 0
        /\ totalSeconds(MIN[1]) = -64800
        /\ totalSeconds(MAX[1]) = 64800
        /\ \A p \in returned :
              /\ p.ts = 0 => p.ref = UTC[1]
              /\ p.ts = -64800 => p.ref = MIN[1]
              /\p.ts = 64800 => p.ref = MAX[1]
        /\ (CalledOfTotalSeconds /\ last.ts = 0) => last.value = UTC
        /\ (CalledOfTotalSeconds /\ last.ts = -64800) => last.value = MIN
        /\ (CalledOfTotalSeconds /\ last.ts = 64800) => last.value = MAX

C9_NeverRebound ==
    /\ UTC # <<>> => UTC' = UTC
    /\ MIN # <<>> => MIN' = MIN
    /\ MAX # <<>> => MAX' = MAX

C9_Constants == []C9_ConstantsBound /\ [][C9_NeverRebound]_vars

\* ofTotalSeconds(64800) called before _init built the instance that _init
\* bound to MAX and that a later call still returns
C9_Witness ==
    /\ Initialised
    /\ MAX = <<1>> /\ UTC = <<2>>
    /\ CalledOfTotalSeconds /\ last.ts = 64800 /\ last.value = MAX
    /\ Len(heap) = MaxHeap

\* C10: every key of the cache is a multiple of 900 and maps to an offset
\* with that totalSeconds; an entry is never replaced or removed; a call
\* ofTotalSeconds(ts) with ts no multiple of 900 leaves the cache as it was
\* and the offset it returns is newly constructed, distinct from every
\* instance returned before.
C10_CacheKeys ==
    \A k \in DOMAIN SECONDS_CACHE :
        /\ Aligned(k)
        /\ SECONDS_CACHE[k] \in 1..Len(heap)
        /\ totalSeconds(SECONDS_CACHE[k]) = k

C10_EntriesKept ==
    \A k \in DOMAIN SECONDS_CACHE :
        k \in DOMAIN SECONDS_CACHE' /\ SECONDS_CACHE'[k] = SECONDS_CACHE[k]

C10_UnalignedFresh ==
    (FactoryStep /\ last'.op = "ofTotalSeconds" /\ ~Aligned(last'.ts))
        => /\ SECONDS_CACHE' = SECONDS_CACHE
           /\ InRange(last'.ts) => last'.thrown = NotThrown
           /\ last'.thrown = NotThrown =>
                /\ last'.value # <<>>
                /\ Len(heap') = Len(heap) + 1
                /\ last'.value[1] = Len(heap')
                /\ \A p \in returned : p.ref # last'.value[1]
                /\ \A k \in DOMAIN SECONDS_CACHE' : SECONDS_CACHE'[k] # last'.value[1]

C10_Cache == []C10_CacheKeys /\ [][C10_EntriesKept /\ C10_UnalignedFresh]_vars

\* a second ofTotalSeconds(1) after _init: two offsets of 1 second, none cached
C10_Witness ==
    /\ CalledOfTotalSeconds /\ last.ts = 1 /\ Returned_
    /\ Initialised
    /\ Cardinality({p \in returned : p.ts = 1}) = 2
    /\ 1 \notin DOMAIN SECONDS_CACHE
    /\ DOMAIN SECONDS_CACHE # {}

-----------------------------------------------------------------------------
(* The seven rules of the triple form, as the specification numbers them *)

Rule(i, h, m, s) ==
    CASE i = 1 -> -18 <= h /\ h <= 18
      [] i = 2 -> h > 0 => (m >= 0 /\ s >= 0)
      [] i = 3 -> h < 0 => (m <= 0 /\ s <= 0)
      [] i = 4 -> h = 0 => ~((m > 0 /\ s < 0) \/ (m < 0 /\ s > 0))
      [] i = 5 -> Abs(m) <= 59
      [] i = 6 -> Abs(s) <= 59
      [] i = 7 -> Abs(h) = 18 => (m = 0 /\ s = 0)

AllRules(h, m, s) == \A i \in 1..7 : Rule(i, h, m, s)

\* the lowest-numbered rule the triple violates
FirstViolated(h, m, s) ==
    CHOOSE i \in 1..7 : ~Rule(i, h, m, s) /\ \A j \in 1..(i - 1) : Rule(j, h, m, s)

\* how the message of each rule's error starts
RuleMessage(i) ==
    CASE i = 1 -> "Zone offset hours not in valid range: value "
      [] i = 2 -> "Zone offset minutes and seconds must be positive because hours is positive"
      [] i = 3 -> "Zone offset minutes and seconds must be negative because hours is negative"
      [] i = 4 -> "Zone offset minutes and seconds must have the same sign"
      [] i = 5 -> "Zone offset minutes not in valid range: abs(value) "
      [] i = 6 -> "Zone offset seconds not in valid range: abs(value) "
      [] i = 7 -> RangeMessage

CalledTriple == last.op = "ofHoursMinutesSeconds"

\* C4: ofHoursMinutesSeconds(h, m, s) returns exactly when the triple meets
\* all seven rules, and the offset it returns has totalSeconds() =
\* h*3600 + m*60 + s; so the total-seconds validator behind it rejects no
\* triple the triple validator accepted, and (0, 1, -1), (0, -1, 1) fail.
C4_TripleAccepted ==
    CalledTriple =>
        LET h == last.args[1]
            m == last.args[2]
            s == last.args[3]
        IN  /\ (last.thrown = NotThrown) <=> AllRules(h, m, s)
            /\ last.thrown = NotThrown =>
                  /\ last.value # <<>>
                  /\ totalSeconds(last.value[1]) = h * 3600 + m * 60 + s
            /\ last.thrown # NotThrown => last.value = <<>>
            /\ (<<h, m, s>> \in {<<0, 1, -1>>, <<0, -1, 1>>}) => last.thrown # NotThrown

\* -17:59:59 is accepted after _init
C4_Witness ==
    /\ CalledTriple /\ last.args = <<-17, -59, -59>> /\ Returned_
    /\ Initialised
    /\ totalSeconds(last.value[1]) = -64799

\* C5: a triple that violates several rules fails with the error of the
\* lowest-numbered rule it violates: (19, -1, 0) with the hours range,
\* (1, -60, 0) with the sign rule, (18, 60, 0) with the minutes range.
C5_FirstViolationWins ==
    (CalledTriple /\ ~AllRules(last.args[1], last.args[2], last.args[3])) =>
        /\ last.thrown # NotThrown
        /\ last.thrown[1].name = "DateTimeException"
        /\ last.thrown[1].message[1] =
              RuleMessage(FirstViolated(last.args[1], last.args[2], last.args[3]))

\* (18, 60, 0) violates rules 5 and 7 and reports the minutes range
C5_Witness ==
    /\ CalledTriple /\ last.args = <<18, 60, 0>>
    /\ ~Rule(5, 18, 60, 0) /\ ~Rule(7, 18, 60, 0)
    /\ last.thrown # NotThrown
    /\ last.thrown[1].message[1] = RuleMessage(5)

-----------------------------------------------------------------------------
(* The canonical id, as the specification words it *)

TwoDigits(n) ==
    <<<<"0", "1", "2", "3", "4", "5", "6", "7", "8", "9">>[(n \div 10) + 1],
      <<"0", "1", "2", "3", "4", "5", "6", "7", "8", "9">>[(n % 10) + 1]>>

CanonicalId(ts) ==
    IF ts = 0 THEN <<"Z">>
    ELSE LET a == IF ts < 0 THEN -ts ELSE ts
         IN  <<IF ts > 0 THEN "+" ELSE "-">>
                \o TwoDigits(a \div 3600) \o <<":">> \o TwoDigits((a \div 60) % 60)
                \o (IF a % 60 # 0 THEN <<":">> \o TwoDigits(a % 60) ELSE <<>>)

\* C6: for every ts in -64800..64800 the id() and toString() of
\* ofTotalSeconds(ts) are the canonical string: "Z" for 0, else sign, two
\* digits of hours, ":", two digits of minutes and, when the seconds are
\* not 0, ":" and two digits of seconds.
C6_CanonicalId ==
    (CalledOfTotalSeconds /\ InRange(last.ts) /\ Returned_) =>
        /\ id(last.value[1]) = CanonicalId(last.ts)
        /\ toString(last.value[1]) = CanonicalId(last.ts)

\* -3661 is "-01:01:01", after _init
C6_Witness ==
    /\ CalledOfTotalSeconds /\ last.ts = -3661 /\ Returned_
    /\ Initialised
    /\ toString(last.value[1]) = <<"-", "0", "1", ":", "0", "1", ":", "0", "1">>

-----------------------------------------------------------------------------
\* C8: for offsets returned by ofTotalSeconds(ts1) and ofTotalSeconds(ts2),
\* equals is true exactly when ts1 = ts2, also for two distinct instances;
\* equals is false for an argument that is no offset; offsets that are
\* equals-equal have equal hashCode(), which is totalSeconds().
C8_EqualsByTotalSeconds ==
    last.op = "equals" =>
        LET this == last.args[1]
            obj == last.args[2]
            result == last.value[1]
        IN  /\ obj.type = "ZoneOffset" =>
                  /\ \A p, q \in returned :
                        (p.ref = this /\ q.ref = obj.ref /\ InRange(p.ts) /\ InRange(q.ts))
                            => (result <=> p.ts = q.ts)
                  /\ result => hashCode(this) = hashCode(obj.ref)
            /\ obj.type # "ZoneOffset" => ~result
            /\ \A p \in returned : (p.ref = this /\ InRange(p.ts)) => hashCode(this) = p.ts
            /\ hashCode(this) = totalSeconds(this)

\* two distinct instances of the same unaligned offset are equal
C8_Witness ==
    /\ last.op = "equals"
    /\ last.args[2].type = "ZoneOffset"
    /\ last.args[2].ref # last.args[1]
    /\ totalSeconds(last.args[1]) = -1
    /\ last.value = <<TRUE>>

====
